---- MODULE Spec2Model ----
(***************************************************************************)
(* Model of trinity/protocol/les/proto.py (LESHandshakeParams, LESProtocol, *)
(* LESProtocolV2, ProxyLESProtocol) and of                                  *)
(* trinity/protocol/bcc/trackers.py (GetBeaconBlocksTracker).               *)
(*                                                                         *)
(* Python's Optional[T] is modelled as a sequence of length at most one:    *)
(* None is <<>> and a value x is <<x>>.                                     *)
(***************************************************************************)
EXTENDS Integers, Sequences, FiniteSets, TLC

VARIABLES
    driver,     \* LES driver -> [cls, version, cmd_id_offset, snappy_support]
    transport,  \* LES driver -> sequence of frames handed to transport.send
    generated,  \* ids handed out so far by gen_request_id
    events,     \* events handed to event_bus.broadcast_nowait, in order
    calls,      \* history of the calls made so far, with their outcomes
    hparams,    \* the LESHandshakeParams record under projection
    payload,    \* Optional result of hparams.as_payload_dict()
    treq,       \* the GetBeaconBlocksRequest given to the tracker
    tresult,    \* the result sequence given to the tracker
    sample      \* Optional (request size, result size, result item count)

vars == <<driver, transport, generated, events, calls,
          hparams, payload, treq, tresult, sample>>

-----------------------------------------------------------------------------
(* Bounds of the model *)

MaxCalls == 2
MaxRequestId == 2
MaxBlocks == 3

-----------------------------------------------------------------------------
(* Python values *)

None == <<>>
Some(x) == <<x>>

Range(s) == {s[i] : i \in 1..Len(s)}

SeqsUpTo(S, n) == UNION {[1..k -> S] : k \in 0..n}

\* `not x` for the values that occur: None is falsy.
PyNot(x) == x = None

-----------------------------------------------------------------------------
(* constants.MAX_BODIES_FETCH: the most hashes one GetBlockBodies request may *)
(* carry. The module that sets it is not part of the sources at hand; a      *)
(* small value stands for it, and the lists offered to the drivers run from  *)
(* the empty list to one hash more than this.                                *)

MAX_BODIES_FETCH == 2

-----------------------------------------------------------------------------
(* LESHandshakeParams *)

\* Lines 85-110: the (key, value) pairs in the order they are yielded.
Yield(cond, key, value) == IF cond THEN <<<<key, value>>>> ELSE <<>>

\* Faulty variant: txRelay carries the flag's value instead of being a bare marker.
_as_payload_dict_TxRelayValue(self) ==
    <<<<"protocolVersion", Some(self.version)>>,
      <<"networkId", Some(self.network_id)>>,
      <<"headTd", Some(self.head_td)>>,
      <<"headHash", Some(self.head_hash)>>,
      <<"headNum", Some(self.head_number)>>,
      <<"genesisHash", Some(self.genesis_hash)>>>>
    \o Yield(self.serve_headers = Some(TRUE), "serveHeaders", None)
    \o Yield(self.serve_chain_since /= None, "serveChainSince", self.serve_chain_since)
    \o Yield(self.serve_state_since /= None, "serveStateSince", self.serve_state_since)
    \o Yield(self.serve_recent_chain /= None, "serveRecentChain", self.serve_recent_chain)
    \o Yield(self.serve_recent_state /= None, "serveRecentState", self.serve_recent_state)
    \o Yield(self.tx_relay /= None, "txRelay", self.tx_relay)
    \o Yield(self.flow_control_bl /= None, "flowControl/BL", self.flow_control_bl)
    \o Yield(self.flow_control_mcr /= None, "flowControl/MRC", self.flow_control_mcr)
    \o Yield(self.flow_control_mrr /= None, "flowControl/MRR", self.flow_control_mrr)
    \o Yield(self.announce_type /= None, "announceType", self.announce_type)

\* Faulty variant: the buffer limit is tested for truth ("if self.flow_control_bl:")
\* instead of "is not None", so a limit of 0 is dropped.
_as_payload_dict_Truthy(self) ==
    <<<<"protocolVersion", Some(self.version)>>,
      <<"networkId", Some(self.network_id)>>,
      <<"headTd", Some(self.head_td)>>,
      <<"headHash", Some(self.head_hash)>>,
      <<"headNum", Some(self.head_number)>>,
      <<"genesisHash", Some(self.genesis_hash)>>>>
    \o Yield(self.serve_headers = Some(TRUE), "serveHeaders", None)
    \o Yield(self.serve_chain_since /= None, "serveChainSince", self.serve_chain_since)
    \o Yield(self.serve_state_since /= None, "serveStateSince", self.serve_state_since)
    \o Yield(self.serve_recent_chain /= None, "serveRecentChain", self.serve_recent_chain)
    \o Yield(self.serve_recent_state /= None, "serveRecentState", self.serve_recent_state)
    \o Yield(self.tx_relay = Some(TRUE), "txRelay", None)
    \o Yield(self.flow_control_bl \notin {None, Some(0)}, "flowControl/BL",
             self.flow_control_bl)
    \o Yield(self.flow_control_mcr /= None, "flowControl/MRC", self.flow_control_mcr)
    \o Yield(self.flow_control_mrr /= None, "flowControl/MRR", self.flow_control_mrr)
    \o Yield(self.announce_type /= None, "announceType", self.announce_type)

_as_payload_dict(self) ==
    <<<<"protocolVersion", Some(self.version)>>,
      <<"networkId", Some(self.network_id)>>,
      <<"headTd", Some(self.head_td)>>,
      <<"headHash", Some(self.head_hash)>>,
      <<"headNum", Some(self.head_number)>>,
      <<"genesisHash", Some(self.genesis_hash)>>>>
    \o Yield(self.serve_headers = Some(TRUE), "serveHeaders", None)
    \o Yield(self.serve_chain_since /= None, "serveChainSince", self.serve_chain_since)
    \o Yield(self.serve_state_since /= None, "serveStateSince", self.serve_state_since)
    \o Yield(self.serve_recent_chain /= None, "serveRecentChain", self.serve_recent_chain)
    \o Yield(self.serve_recent_state /= None, "serveRecentState", self.serve_recent_state)
    \o Yield(self.tx_relay = Some(TRUE), "txRelay", None)
    \o Yield(self.flow_control_bl /= None, "flowControl/BL", self.flow_control_bl)
    \o Yield(self.flow_control_mcr /= None, "flowControl/MRC", self.flow_control_mcr)
    \o Yield(self.flow_control_mrr /= None, "flowControl/MRR", self.flow_control_mrr)
    \o Yield(self.announce_type /= None, "announceType", self.announce_type)

\* eth_utils.to_dict: dict(pairs), the last pair of a key wins.
to_dict(pairs) ==
    [k \in {p[1] : p \in Range(pairs)} |->
        LET last == CHOOSE i \in 1..Len(pairs) :
                        /\ pairs[i][1] = k
                        /\ \A j \in (i+1)..Len(pairs) : pairs[j][1] /= k
        IN pairs[last][2]]

as_payload_dict(self) == to_dict(_as_payload_dict(self))

-----------------------------------------------------------------------------
(* Outcome of one call: what it raised or returned, and what it did *)

\* err: "none" when the call returned; ret: the returned value (None when it
\* raised or returned None); sent: frames given to transport.send; published:
\* (event, config) pairs given to broadcast_nowait; gen: the id taken from
\* gen_request_id, if the call evaluated gen_request_id().
Return(ret, sent, published, gen) ==
    [err |-> "none", ret |-> ret, sent |-> sent, published |-> published, gen |-> gen]

Raise(err, gen) ==
    [err |-> err, ret |-> None, sent |-> <<>>, published |-> <<>>, gen |-> gen]

-----------------------------------------------------------------------------
(* trinity._utils.les.gen_request_id: the ids a call may obtain *)

RequestIds == 1..MaxRequestId

gen_request_id(allocated) == RequestIds \ allocated

\* Faulty variant: a fresh id is generated even when the caller supplied one.
OrGen_Always(request_id, fresh) == Some(fresh)

\* "if request_id is None: request_id = gen_request_id()", with fresh the value
\* gen_request_id() yields if it is evaluated.
OrGen(request_id, fresh) == IF request_id = None THEN Some(fresh) ELSE request_id

\* The id taken from the allocator by that statement, if any.
Taken(request_id, fresh) == IF request_id = None THEN Some(fresh) ELSE None

-----------------------------------------------------------------------------
(* .commands: Command(cmd_id_offset, snappy_support).encode(data) *)

Encode(cmd, self, data) ==
    [cmd |-> cmd,
     cmd_id_offset |-> self.cmd_id_offset,
     snappy_support |-> self.snappy_support,
     data |-> data]

-----------------------------------------------------------------------------
(* class LESProtocol *)

version(cls) == IF cls = "LESProtocolV2" THEN 2 ELSE 1

_commands(cls) ==
    IF cls = "LESProtocolV2"
    THEN <<"StatusV2", "Announce", "BlockHeaders", "GetBlockHeaders",
           "BlockBodies", "Receipts", "ProofsV2", "ContractCodes">>
    ELSE <<"Status", "Announce", "BlockHeaders", "GetBlockHeaders",
           "BlockBodies", "Receipts", "Proofs", "ContractCodes">>

cmd_length(cls) == IF cls = "LESProtocolV2" THEN 21 ELSE 15

\* Faulty variant: the frame is sent before the version is compared.
send_handshake_SendFirst(self, handshake_params) ==
    IF handshake_params.version /= self.version
    THEN [Raise("ValidationError", None) EXCEPT
            !.sent = <<Encode("Status", self, as_payload_dict(handshake_params))>>]
    ELSE Return(None,
                <<Encode("Status", self, as_payload_dict(handshake_params))>>,
                <<>>, None)

send_handshake(self, handshake_params) ==
    IF handshake_params.version /= self.version
    THEN Raise("ValidationError", None)
    ELSE Return(None,
                <<Encode("Status", self, as_payload_dict(handshake_params))>>,
                <<>>, None)

\* Faulty variant: an over-long list is cut to the maximum and sent.
send_get_block_bodies_Truncate(self, block_hashes, request_id, fresh) ==
    LET rid == OrGen(request_id, fresh)
        gen == Taken(request_id, fresh)
        kept == IF Len(block_hashes) > MAX_BODIES_FETCH
                THEN SubSeq(block_hashes, 1, MAX_BODIES_FETCH)
                ELSE block_hashes
    IN Return(rid,
              <<Encode("GetBlockBodies", self,
                       [request_id |-> rid, block_hashes |-> kept])>>,
              <<>>, gen)

send_get_block_bodies(self, block_hashes, request_id, fresh) ==
    LET rid == OrGen(request_id, fresh)
        gen == Taken(request_id, fresh)
    IN IF Len(block_hashes) > MAX_BODIES_FETCH
       THEN Raise("ValueError", gen)
       ELSE Return(rid,
                   <<Encode("GetBlockBodies", self,
                            [request_id |-> rid, block_hashes |-> block_hashes])>>,
                   <<>>, gen)

send_get_block_headers(self, query, request_id, fresh) ==
    LET rid == OrGen(request_id, fresh)
    IN Return(rid,
              <<Encode("GetBlockHeaders", self,
                       [request_id |-> rid, query |-> query])>>,
              <<>>, Taken(request_id, fresh))

\* Faulty variant: the command type is picked by the driver's version.
send_block_headers_ByVersion(self, headers, buffer_value, request_id, fresh) ==
    LET rid == OrGen(request_id, fresh)
    IN Return(rid,
              <<Encode(IF self.version = 2 THEN "BlockHeadersV2" ELSE "BlockHeaders",
                       self,
                       [request_id |-> rid, headers |-> headers,
                        buffer_value |-> buffer_value])>>,
              <<>>, Taken(request_id, fresh))

send_block_headers(self, headers, buffer_value, request_id, fresh) ==
    LET rid == OrGen(request_id, fresh)
    IN Return(rid,
              <<Encode("BlockHeaders", self,
                       [request_id |-> rid, headers |-> headers,
                        buffer_value |-> buffer_value])>>,
              <<>>, Taken(request_id, fresh))

\* Faulty variant: a fixed default id stands in for a generated one.
send_get_receipts_Const(self, block_hash, request_id, fresh) ==
    LET rid == IF request_id = None THEN Some(1) ELSE request_id
    IN Return(rid,
              <<Encode("GetReceipts", self,
                       [request_id |-> rid, block_hashes |-> <<block_hash>>])>>,
              <<>>, None)

send_get_receipts(self, block_hash, request_id, fresh) ==
    LET rid == OrGen(request_id, fresh)
    IN Return(rid,
              <<Encode("GetReceipts", self,
                       [request_id |-> rid, block_hashes |-> <<block_hash>>])>>,
              <<>>, Taken(request_id, fresh))

send_get_proof(self, proof_request, request_id, fresh) ==
    LET rid == OrGen(request_id, fresh)
    IN Return(rid,
              <<Encode("GetProofs", self,
                       [request_id |-> rid, proof_requests |-> <<proof_request>>])>>,
              <<>>, Taken(request_id, fresh))

send_get_contract_code(self, code_request, request_id, fresh) ==
    LET rid == OrGen(request_id, fresh)
    IN Return(rid,
              <<Encode("GetContractCodes", self,
                       [request_id |-> rid, code_requests |-> <<code_request>>])>>,
              <<>>, Taken(request_id, fresh))

-----------------------------------------------------------------------------
(* class LESProtocolV2(LESProtocol): the two overridden methods *)

V2_send_handshake(self, handshake_params) ==
    IF handshake_params.version /= self.version
    THEN Raise("ValidationError", None)
    ELSE Return(None,
                <<Encode("StatusV2", self, as_payload_dict(handshake_params))>>,
                <<>>, None)

V2_send_get_proof(self, proof_request, request_id, fresh) ==
    LET rid == OrGen(request_id, fresh)
    IN Return(rid,
              <<Encode("GetProofsV2", self,
                       [request_id |-> rid, proof_requests |-> <<proof_request>>])>>,
              <<>>, Taken(request_id, fresh))

\* Method resolution: LESProtocolV2 defines send_handshake and send_get_proof,
\* and inherits every other method from LESProtocol.
Call_send_handshake(self, handshake_params) ==
    IF self.cls = "LESProtocolV2"
    THEN V2_send_handshake(self, handshake_params)
    ELSE send_handshake(self, handshake_params)

Call_send_get_proof(self, proof_request, request_id, fresh) ==
    IF self.cls = "LESProtocolV2"
    THEN V2_send_get_proof(self, proof_request, request_id, fresh)
    ELSE send_get_proof(self, proof_request, request_id, fresh)

-----------------------------------------------------------------------------
(* class ProxyLESProtocol *)

NotImplemented == Raise("NotImplementedError", None)

Proxy_send_handshake(self, handshake_params) == NotImplemented

Proxy_send_get_block_bodies(self, block_hashes, request_id, fresh) == NotImplemented

Proxy_send_get_block_headers(self, query, request_id, fresh) == NotImplemented

\* Line 312: "request_id if not None else gen_request_id()". The condition is
\* the constant expression "not None"; gen_request_id() is evaluated only in
\* the else branch.
Proxy_send_block_headers(self, headers, buffer_value, request_id, fresh) ==
    LET cond == PyNot(None)
        req_id == IF cond THEN request_id ELSE Some(fresh)
        gen == IF cond THEN None ELSE Some(fresh)
    IN Return(req_id, <<>>,
              <<[event |-> [type |-> "SendBlockHeadersEvent",
                            session |-> self.session,
                            headers |-> headers,
                            buffer_value |-> buffer_value,
                            request_id |-> req_id],
                 config |-> self._broadcast_config]>>,
              gen)

Proxy_send_get_receipts(self, block_hash, request_id, fresh) == NotImplemented

\* Faulty variant: the call returns an id although nothing is forwarded.
Proxy_send_get_proof_Silent(self, proof_request, request_id, fresh) ==
    Return(OrGen(request_id, fresh), <<>>, <<>>, Taken(request_id, fresh))

Proxy_send_get_proof(self, proof_request, request_id, fresh) == NotImplemented

Proxy_send_get_contract_code(self, code_request, request_id, fresh) == NotImplemented

-----------------------------------------------------------------------------
(* class GetBeaconBlocksTracker *)

\* Faulty variant: the wrong key of the payload is read.
_get_request_size_WrongKey(request) == request.command_payload.block_slot_or_root

_get_request_size(request) == request.command_payload.max_blocks

_get_result_size(result) == Len(result)

_get_result_item_count(result) == Len(result)

-----------------------------------------------------------------------------
(* Inputs *)

LESDrivers == {"les1", "les2"}
ClassOf(d) == IF d = "les2" THEN "LESProtocolV2" ELSE "LESProtocol"

CallerIds == {1}
RequestIdArgs == {None} \cup {Some(i) : i \in CallerIds}

BlockHashes == {"h1", "h2"}
\* One list of every length up to one past the maximum, and a second list of
\* the maximum length.
HashList(n, first, second) == [i \in 1..n |-> IF i % 2 = 1 THEN first ELSE second]
BlockHashLists ==
    {HashList(n, "h1", "h2") : n \in 0..(MAX_BODIES_FETCH + 1)}
    \cup {HashList(MAX_BODIES_FETCH, "h2", "h1")}

\* GetBlockHeadersQuery(block_number_or_hash, max_headers, skip, reverse)
Queries ==
    [block_number_or_hash : {"h1"}, max_headers : {1}, skip : {0},
     reverse : BOOLEAN]

HeaderTuples == {<<>>, <<"hdrA", "hdrB">>}
BufferValues == {7}

\* ProofRequest(block_hash, account_key, key, from_level)
ProofRequests ==
    [block_hash : {"h1"}, account_key : {"acct"}, key : {"k"}, from_level : {0}]

\* ContractCodeRequest(block_hash, key)
CodeRequests == [block_hash : {"h2"}, key : {"k"}]

OptBool == {None, Some(TRUE), Some(FALSE)}
OptNum == {None, Some(0)}

Params(v, sh, scs, sss, srs, src, txr, bl, mcr, mrr, at) ==
    [version |-> v, network_id |-> 1, head_td |-> 10, head_hash |-> "h1",
     head_number |-> 5, genesis_hash |-> "g",
     serve_headers |-> sh, serve_chain_since |-> scs, serve_state_since |-> sss,
     serve_recent_state |-> srs, serve_recent_chain |-> src, tx_relay |-> txr,
     flow_control_bl |-> bl, flow_control_mcr |-> mcr, flow_control_mrr |-> mrr,
     announce_type |-> at]

\* Every combination of the ten optional fields, for both versions.
AllParams ==
    {Params(v, sh, scs, sss, srs, src, txr, bl, mcr, mrr, at) :
        v \in 1..2, sh \in OptBool, scs \in OptNum, sss \in OptNum,
        srs \in OptBool, src \in OptBool, txr \in OptBool,
        bl \in OptNum, mcr \in {None, Some(<<<<1, 2, 3>>>>)}, mrr \in OptNum,
        at \in OptNum}

\* The handshake parameters offered to the drivers.
HandshakeInputs ==
    {Params(v, sh, None, None, None, None, Some(FALSE), Some(0), None, None, None) :
        v \in 1..2, sh \in {Some(TRUE)}}

Blocks == {"b1", "b2"}

TrackerRequests ==
    [command_payload : [block_slot_or_root : {0}, max_blocks : 0..MaxBlocks]]

-----------------------------------------------------------------------------
(* State after construction *)

\* ProxyLESProtocol.__init__
proxy == [session |-> "sessionA", _broadcast_config |-> "configA"]

NoParams == Params(1, None, None, None, None, None, None, None, None, None, None)
NoRequest == [command_payload |-> [block_slot_or_root |-> 0, max_blocks |-> 0]]
NoSample == [request_size |-> None, result_size |-> None, result_item_count |-> None]

InitDrivers ==
    /\ driver = [d \in LESDrivers |->
                    [cls |-> ClassOf(d), version |-> version(ClassOf(d)),
                     cmd_id_offset |-> 16, snappy_support |-> TRUE]]
    /\ transport = [d \in LESDrivers |-> <<>>]
    /\ generated = {}
    /\ events = <<>>
    /\ calls = <<>>

IdleParams == hparams = NoParams /\ payload = None
IdleTracker == treq = NoRequest /\ tresult = <<>> /\ sample = NoSample

Init == InitDrivers /\ IdleParams /\ IdleTracker

InitPayload ==
    /\ InitDrivers /\ IdleTracker
    /\ hparams \in AllParams
    /\ payload = None

InitTracker ==
    /\ InitDrivers /\ IdleParams
    /\ treq \in TrackerRequests
    /\ tresult \in SeqsUpTo(Blocks, MaxBlocks)
    /\ sample = NoSample

-----------------------------------------------------------------------------
(* Calls on the LES drivers *)

\* One entry of the call history: the call, its outcome, and the transport,
\* the event bus and the allocator as they were when the call was made.
Record(who, method, request_id, args, out) ==
    [proto |-> who, method |-> method, request_id |-> request_id, args |-> args,
     out |-> out, transportBefore |-> transport, eventsBefore |-> events,
     generatedBefore |-> generated]

\* The effect of a call on driver d with outcome out.
Apply(d, method, request_id, args, out) ==
    /\ transport' = [transport EXCEPT ![d] = @ \o out.sent]
    /\ generated' = generated \cup Range(out.gen)
    /\ events' = events \o out.published
    /\ calls' = Append(calls, Record(d, method, request_id, args, out))
    /\ UNCHANGED <<driver, hparams, payload, treq, tresult, sample>>

\* At most MaxCalls calls are explored, and the bounded id space is never
\* used up.
MayCall == Len(calls) < MaxCalls /\ gen_request_id(generated) /= {}

SendHandshake(d) ==
    /\ MayCall
    /\ \E hp \in HandshakeInputs :
        Apply(d, "send_handshake", None, <<hp>>, Call_send_handshake(driver[d], hp))

SendGetBlockBodies(d) ==
    /\ MayCall
    /\ \E bh \in BlockHashLists, rid \in RequestIdArgs, fresh \in gen_request_id(generated) :
        Apply(d, "send_get_block_bodies", rid, <<bh>>,
              send_get_block_bodies(driver[d], bh, rid, fresh))

SendGetBlockHeaders(d) ==
    /\ MayCall
    /\ \E q \in Queries, rid \in RequestIdArgs, fresh \in gen_request_id(generated) :
        Apply(d, "send_get_block_headers", rid, <<q>>,
              send_get_block_headers(driver[d], q, rid, fresh))

SendBlockHeaders(d) ==
    /\ MayCall
    /\ \E hs \in HeaderTuples, bv \in BufferValues, rid \in RequestIdArgs,
          fresh \in gen_request_id(generated) :
        Apply(d, "send_block_headers", rid, <<hs, bv>>,
              send_block_headers(driver[d], hs, bv, rid, fresh))

SendGetReceipts(d) ==
    /\ MayCall
    /\ \E h \in BlockHashes, rid \in RequestIdArgs, fresh \in gen_request_id(generated) :
        Apply(d, "send_get_receipts", rid, <<h>>,
              send_get_receipts(driver[d], h, rid, fresh))

SendGetProof(d) ==
    /\ MayCall
    /\ \E pr \in ProofRequests, rid \in RequestIdArgs, fresh \in gen_request_id(generated) :
        Apply(d, "send_get_proof", rid, <<pr>>,
              Call_send_get_proof(driver[d], pr, rid, fresh))

SendGetContractCode(d) ==
    /\ MayCall
    /\ \E cr \in CodeRequests, rid \in RequestIdArgs, fresh \in gen_request_id(generated) :
        Apply(d, "send_get_contract_code", rid, <<cr>>,
              send_get_contract_code(driver[d], cr, rid, fresh))

Next ==
    \E d \in LESDrivers :
        \/ SendHandshake(d)
        \/ SendGetBlockBodies(d)
        \/ SendGetBlockHeaders(d)
        \/ SendBlockHeaders(d)
        \/ SendGetReceipts(d)
        \/ SendGetProof(d)
        \/ SendGetContractCode(d)

Spec == Init /\ [][Next]_vars

-----------------------------------------------------------------------------
(* Calls on the proxy *)

ApplyProxy(method, request_id, args, out) ==
    /\ generated' = generated \cup Range(out.gen)
    /\ events' = events \o out.published
    /\ calls' = Append(calls, Record("proxy", method, request_id, args, out))
    /\ UNCHANGED <<driver, transport, hparams, payload, treq, tresult, sample>>

ProxySendHandshake ==
    /\ MayCall
    /\ \E hp \in HandshakeInputs :
        ApplyProxy("send_handshake", None, <<hp>>, Proxy_send_handshake(proxy, hp))

ProxySendGetBlockBodies ==
    /\ MayCall
    /\ \E bh \in BlockHashLists, rid \in RequestIdArgs, fresh \in gen_request_id(generated) :
        ApplyProxy("send_get_block_bodies", rid, <<bh>>,
                   Proxy_send_get_block_bodies(proxy, bh, rid, fresh))

ProxySendGetBlockHeaders ==
    /\ MayCall
    /\ \E q \in Queries, rid \in RequestIdArgs, fresh \in gen_request_id(generated) :
        ApplyProxy("send_get_block_headers", rid, <<q>>,
                   Proxy_send_get_block_headers(proxy, q, rid, fresh))

ProxySendBlockHeaders ==
    /\ MayCall
    /\ \E hs \in HeaderTuples, bv \in BufferValues, rid \in RequestIdArgs,
          fresh \in gen_request_id(generated) :
        ApplyProxy("send_block_headers", rid, <<hs, bv>>,
                   Proxy_send_block_headers(proxy, hs, bv, rid, fresh))

ProxySendGetReceipts ==
    /\ MayCall
    /\ \E h \in BlockHashes, rid \in RequestIdArgs, fresh \in gen_request_id(generated) :
        ApplyProxy("send_get_receipts", rid, <<h>>,
                   Proxy_send_get_receipts(proxy, h, rid, fresh))

ProxySendGetProof ==
    /\ MayCall
    /\ \E pr \in ProofRequests, rid \in RequestIdArgs, fresh \in gen_request_id(generated) :
        ApplyProxy("send_get_proof", rid, <<pr>>,
                   Proxy_send_get_proof(proxy, pr, rid, fresh))

ProxySendGetContractCode ==
    /\ MayCall
    /\ \E cr \in CodeRequests, rid \in RequestIdArgs, fresh \in gen_request_id(generated) :
        ApplyProxy("send_get_contract_code", rid, <<cr>>,
                   Proxy_send_get_contract_code(proxy, cr, rid, fresh))

NextProxy ==
    \/ ProxySendHandshake
    \/ ProxySendGetBlockBodies
    \/ ProxySendGetBlockHeaders
    \/ ProxySendBlockHeaders
    \/ ProxySendGetReceipts
    \/ ProxySendGetProof
    \/ ProxySendGetContractCode

SpecProxy == Init /\ [][NextProxy]_vars

-----------------------------------------------------------------------------
(* Projection of a handshake parameter record *)

AsPayloadDict ==
    /\ payload = None
    /\ payload' = Some(as_payload_dict(hparams))
    /\ UNCHANGED <<driver, transport, generated, events, calls, hparams,
                   treq, tresult, sample>>

SpecPayload == InitPayload /\ [][AsPayloadDict]_vars

-----------------------------------------------------------------------------
(* The three queries of the performance tracker *)

GetRequestSize ==
    /\ sample.request_size = None
    /\ sample' = [sample EXCEPT !.request_size = Some(_get_request_size(treq))]
    /\ UNCHANGED <<driver, transport, generated, events, calls, hparams, payload,
                   treq, tresult>>

GetResultSize ==
    /\ sample.result_size = None
    /\ sample' = [sample EXCEPT !.result_size = Some(_get_result_size(tresult))]
    /\ UNCHANGED <<driver, transport, generated, events, calls, hparams, payload,
                   treq, tresult>>

GetResultItemCount ==
    /\ sample.result_item_count = None
    /\ sample' = [sample EXCEPT
                    !.result_item_count = Some(_get_result_item_count(tresult))]
    /\ UNCHANGED <<driver, transport, generated, events, calls, hparams, payload,
                   treq, tresult>>

NextTracker == GetRequestSize \/ GetResultSize \/ GetResultItemCount

SpecTracker == InitTracker /\ [][NextTracker]_vars

-----------------------------------------------------------------------------
(* Properties *)

Called == calls /= <<>>
Last == calls[Len(calls)]

RequestMethods ==
    {"send_get_block_bodies", "send_get_block_headers", "send_block_headers",
     "send_get_receipts", "send_get_proof", "send_get_contract_code"}

OnLES(c) == c.proto \in LESDrivers
OnProxy(c) == c.proto = "proxy"

\* The frames the call c added to the transport of its driver.
FramesOf(c) ==
    SubSeq(transport[c.proto], Len(c.transportBefore[c.proto]) + 1,
           Len(transport[c.proto]))

\* The call c left what was on the transports before it in place.
KeptFrames(c) ==
    \A d \in LESDrivers :
        /\ Len(transport[d]) >= Len(c.transportBefore[d])
        /\ SubSeq(transport[d], 1, Len(c.transportBefore[d])) = c.transportBefore[d]
        /\ d /= c.proto => transport[d] = c.transportBefore[d]

\* C1: every ProxyLESProtocol.send_block_headers call publishes exactly one
\* SendBlockHeadersEvent with the configured broadcast config, carrying the
\* session, the headers and the buffer value unchanged and a real request id
\* (the caller's when supplied, a generated one when not, never None), and
\* returns that id.
C1_ProxySendBlockHeadersRealId ==
    (Called /\ OnProxy(Last) /\ Last.method = "send_block_headers") =>
        /\ Last.out.err = "none"
        /\ Len(events) = Len(Last.eventsBefore) + 1
        /\ SubSeq(events, 1, Len(Last.eventsBefore)) = Last.eventsBefore
        /\ LET pub == events[Len(events)]
           IN /\ pub.config = proxy._broadcast_config
              /\ pub.event.type = "SendBlockHeadersEvent"
              /\ pub.event.session = proxy.session
              /\ pub.event.headers = Last.args[1]
              /\ pub.event.buffer_value = Last.args[2]
              /\ pub.event.request_id /= None
              /\ Last.request_id /= None => pub.event.request_id = Last.request_id
              /\ Last.request_id = None =>
                    /\ Last.out.gen = pub.event.request_id
                    /\ pub.event.request_id[1] \in generated \ Last.generatedBefore
              /\ Last.out.ret = pub.event.request_id

\* C2: send_get_block_bodies with more than MAX_BODIES_FETCH hashes raises
\* and writes nothing to any transport; with at most MAX_BODIES_FETCH hashes
\* it sends one GetBlockBodies frame carrying the whole list.
C2_BodiesOverMaxRejected ==
    (Called /\ OnLES(Last) /\ Last.method = "send_get_block_bodies") =>
        IF Len(Last.args[1]) > MAX_BODIES_FETCH
        THEN /\ Last.out.err = "ValueError"
             /\ Last.out.ret = None
             /\ transport = Last.transportBefore
        ELSE /\ Last.out.err = "none"
             /\ KeptFrames(Last)
             /\ Len(FramesOf(Last)) = 1
             /\ FramesOf(Last)[1].cmd = "GetBlockBodies"
             /\ FramesOf(Last)[1].data.block_hashes = Last.args[1]

C2_Witness ==
    /\ Len(calls) = 2
    /\ calls[1].method = "send_get_block_bodies"
    /\ Len(calls[1].args[1]) = MAX_BODIES_FETCH
    /\ calls[1].out.err = "none"
    /\ calls[2].method = "send_get_block_bodies"
    /\ calls[2].proto = calls[1].proto
    /\ Len(calls[2].args[1]) = MAX_BODIES_FETCH + 1
    /\ calls[2].out.err = "ValueError"
    /\ Len(transport[calls[2].proto]) = 1

\* C3: send_handshake with parameters of another version than the driver's
\* raises ValidationError and writes no frame; with parameters of the driver's
\* version it sends exactly one frame, a Status frame on a version 1 driver and
\* a StatusV2 frame on a version 2 driver.
C3_HandshakeVersionChecked ==
    (Called /\ OnLES(Last) /\ Last.method = "send_handshake") =>
        LET self == driver[Last.proto]
        IN IF Last.args[1].version /= self.version
           THEN /\ Last.out.err = "ValidationError"
                /\ transport = Last.transportBefore
           ELSE /\ Last.out.err = "none"
                /\ KeptFrames(Last)
                /\ Len(FramesOf(Last)) = 1
                /\ FramesOf(Last)[1].cmd =
                        (IF self.version = 1 THEN "Status" ELSE "StatusV2")
                /\ FramesOf(Last)[1].data = as_payload_dict(Last.args[1])

C3_Witness ==
    /\ Len(calls) = 2
    /\ calls[1].proto = "les1" /\ calls[1].method = "send_handshake"
    /\ calls[1].args[1].version = 2
    /\ calls[1].out.err = "ValidationError"
    /\ calls[2].proto = "les2" /\ calls[2].method = "send_handshake"
    /\ calls[2].args[1].version = 2
    /\ calls[2].out.err = "none"
    /\ transport["les1"] = <<>>
    /\ Len(transport["les2"]) = 1 /\ transport["les2"][1].cmd = "StatusV2"

\* The payload, once it has been computed.
Projected == payload /= None
Payload == payload[1]
Has(key) == key \in DOMAIN Payload

\* The field is a bare presence marker when true, and missing otherwise.
MarkerField(value, key) ==
    /\ value = Some(TRUE) => Has(key) /\ Payload[key] = None
    /\ value /= Some(TRUE) => ~Has(key)

\* The field is in the payload, with its value, exactly when it is not None.
ValueField(value, key) ==
    /\ Has(key) <=> value /= None
    /\ Has(key) => Payload[key] = value /\ Payload[key] /= None

\* C4 as stated: each of the four boolean-typed capability fields
\* (serve_headers, tx_relay, serve_recent_state, serve_recent_chain) is a
\* presence marker with value None when true, and is missing from the payload
\* when false or absent.
C4_AllBooleanFieldsAreMarkers ==
    Projected =>
        /\ MarkerField(hparams.serve_headers, "serveHeaders")
        /\ MarkerField(hparams.tx_relay, "txRelay")
        /\ MarkerField(hparams.serve_recent_state, "serveRecentState")
        /\ MarkerField(hparams.serve_recent_chain, "serveRecentChain")

\* C4 amended: serve_headers and tx_relay are presence markers with value None
\* when true and are missing when false or absent; serve_recent_state and
\* serve_recent_chain are in the payload exactly when they are not None, and
\* then carry their value (true or false).
C4_BooleanFieldsEncoding ==
    Projected =>
        /\ MarkerField(hparams.serve_headers, "serveHeaders")
        /\ MarkerField(hparams.tx_relay, "txRelay")
        /\ ValueField(hparams.serve_recent_state, "serveRecentState")
        /\ ValueField(hparams.serve_recent_chain, "serveRecentChain")

C4_Witness ==
    /\ Projected
    /\ hparams.serve_headers = Some(TRUE) /\ Has("serveHeaders")
    /\ hparams.tx_relay = Some(FALSE) /\ ~Has("txRelay")
    /\ hparams.serve_recent_state = Some(FALSE) /\ Has("serveRecentState")
    /\ hparams.serve_recent_chain = Some(TRUE)
    /\ Payload["serveRecentChain"] = Some(TRUE)

RequiredKeys ==
    {"protocolVersion", "networkId", "headTd", "headHash", "headNum", "genesisHash"}

\* C5: the payload always has the six required keys, and has the key of a
\* non-boolean optional field exactly when the field is not None, with the
\* field's value; no key is there for an absent field.
C5_RequiredAndOptionalKeys ==
    Projected =>
        /\ RequiredKeys \subseteq DOMAIN Payload
        /\ Payload["protocolVersion"] = Some(hparams.version)
        /\ Payload["genesisHash"] = Some(hparams.genesis_hash)
        /\ ValueField(hparams.serve_chain_since, "serveChainSince")
        /\ ValueField(hparams.serve_state_since, "serveStateSince")
        /\ ValueField(hparams.flow_control_bl, "flowControl/BL")
        /\ ValueField(hparams.flow_control_mcr, "flowControl/MRC")
        /\ ValueField(hparams.flow_control_mrr, "flowControl/MRR")
        /\ ValueField(hparams.announce_type, "announceType")

C5_Witness ==
    /\ Projected
    /\ hparams.flow_control_bl = Some(0) /\ Has("flowControl/BL")
    /\ hparams.flow_control_mcr /= None /\ Has("flowControl/MRC")
    /\ hparams.serve_chain_since = None /\ ~Has("serveChainSince")
    /\ hparams.announce_type = None /\ ~Has("announceType")

C7_ProxyNotImplemented ==
    (Called /\ OnProxy(Last) /\ Last.method /= "send_block_headers") =>
        /\ Last.out.err = "NotImplementedError"
        /\ Last.out.ret = None
        /\ events = Last.eventsBefore
        /\ generated = Last.generatedBefore
        /\ transport = Last.transportBefore

C7_Witness ==
    /\ Len(calls) = 2
    /\ calls[1].method = "send_block_headers" /\ Len(events) = 1
    /\ calls[2].method = "send_get_proof"
    /\ calls[2].request_id = None
    /\ calls[2].out.err = "NotImplementedError"

\* C8: a request send-method of an LES driver that returned has written
\* exactly one frame, the id it returned is the request id in that frame, and
\* that id is the caller's id when one was supplied (the allocator is then left
\* alone) and an id newly taken from the allocator when none was supplied.
C8_OneFrameWithReturnedId ==
    (Called /\ OnLES(Last) /\ Last.method \in RequestMethods
            /\ Last.out.err = "none") =>
        /\ KeptFrames(Last)
        /\ Len(FramesOf(Last)) = 1
        /\ Last.out.ret /= None
        /\ FramesOf(Last)[1].data.request_id = Last.out.ret
        /\ Last.request_id /= None =>
                /\ Last.out.ret = Last.request_id
                /\ generated = Last.generatedBefore
        /\ Last.request_id = None =>
                /\ Last.out.ret[1] \in generated \ Last.generatedBefore
                /\ Cardinality(generated) = Cardinality(Last.generatedBefore) + 1

C8_Witness ==
    /\ Len(calls) = 2
    /\ calls[1].method = "send_get_block_headers" /\ calls[1].request_id = None
    /\ calls[1].out.ret = Some(1)
    /\ calls[2].method = "send_get_proof" /\ calls[2].proto = "les2"
    /\ calls[2].request_id = Some(1) /\ calls[2].out.ret = Some(1)
    /\ generated = {1}

\* C9: for a request with max_blocks N and a result of M items, M <= N, the
\* request size is N, the result size is M and the result item count is M,
\* and computing them leaves the request, the result and the rest of the
\* state as they were.
SizesRight ==
    LET N == treq.command_payload.max_blocks
        M == Len(tresult)
    IN M <= N =>
        /\ sample.request_size \in {None, Some(N)}
        /\ sample.result_size \in {None, Some(M)}
        /\ sample.result_item_count \in {None, Some(M)}

C9_TrackerSizes ==
    /\ []SizesRight
    /\ [][UNCHANGED <<treq, tresult, driver, transport, generated, events, calls>>]_vars

C9_Witness ==
    /\ treq.command_payload.max_blocks = MaxBlocks
    /\ Len(tresult) = 1
    /\ sample = [request_size |-> Some(MaxBlocks), result_size |-> Some(1),
                 result_item_count |-> Some(1)]

\* The positions at which the two command registries differ.
RegistryDiff ==
    {i \in 1..Len(_commands("LESProtocol")) :
        _commands("LESProtocol")[i] /= _commands("LESProtocolV2")[i]}

\* An outcome with the command type of its frames left out.
WithoutCmd(out) ==
    [out EXCEPT !.sent = [i \in 1..Len(out.sent) |->
                            [cmd_id_offset |-> out.sent[i].cmd_id_offset,
                             snappy_support |-> out.sent[i].snappy_support,
                             data |-> out.sent[i].data]]]

CmdsOf(out) == [i \in 1..Len(out.sent) |-> out.sent[i].cmd]

\* The call c made again on the driver self, the allocator yielding what it
\* yielded to c.
Replay(c, self) ==
    LET rid == c.request_id
        fresh == IF c.out.gen = None THEN CHOOSE f \in RequestIds : TRUE
                 ELSE c.out.gen[1]
    IN CASE c.method = "send_handshake" ->
              Call_send_handshake(self, [c.args[1] EXCEPT !.version = self.version])
         [] c.method = "send_get_block_bodies" ->
              send_get_block_bodies(self, c.args[1], rid, fresh)
         [] c.method = "send_get_block_headers" ->
              send_get_block_headers(self, c.args[1], rid, fresh)
         [] c.method = "send_block_headers" ->
              send_block_headers(self, c.args[1], c.args[2], rid, fresh)
         [] c.method = "send_get_receipts" ->
              send_get_receipts(self, c.args[1], rid, fresh)
         [] c.method = "send_get_proof" ->
              Call_send_get_proof(self, c.args[1], rid, fresh)
         [] c.method = "send_get_contract_code" ->
              send_get_contract_code(self, c.args[1], rid, fresh)

\* The driver of the other version on the same session settings.
Other(self) ==
    IF self.cls = "LESProtocol"
    THEN [self EXCEPT !.cls = "LESProtocolV2", !.version = version("LESProtocolV2")]
    ELSE [self EXCEPT !.cls = "LESProtocol", !.version = version("LESProtocol")]

InheritedMethods == RequestMethods \ {"send_get_proof"}

\* C10: whatever call of send_get_block_bodies, send_get_block_headers,
\* send_block_headers, send_get_receipts or send_get_contract_code a driver
\* has made, the driver of the other version, with the same command id offset
\* and the same id from the allocator, gives the same outcome (command type,
\* request fields, returned id, error). The two versions differ in the
\* handshake command (Status, StatusV2), the proof-request command (GetProofs,
\* GetProofsV2), and the registry (Status/StatusV2, Proofs/ProofsV2) with its
\* length (15, 21).
C10_V2DiffersInThreeThings ==
    /\ (Called /\ OnLES(Last)) =>
        LET self == driver[Last.proto]
            mine == Replay(Last, self)
            theirs == Replay(Last, Other(self))
            v2cmd == IF self.cls = "LESProtocolV2" THEN CmdsOf(mine) ELSE CmdsOf(theirs)
            v1cmd == IF self.cls = "LESProtocolV2" THEN CmdsOf(theirs) ELSE CmdsOf(mine)
        IN /\ Last.method /= "send_handshake" => mine = Last.out
           /\ Last.method \in InheritedMethods => theirs = Last.out
           /\ Last.method = "send_get_proof" =>
                /\ WithoutCmd(theirs) = WithoutCmd(Last.out)
                /\ v1cmd = <<"GetProofs">> /\ v2cmd = <<"GetProofsV2">>
           /\ Last.method = "send_handshake" =>
                /\ mine.err = "none" /\ theirs.err = "none"
                /\ v1cmd = <<"Status">> /\ v2cmd = <<"StatusV2">>
    /\ cmd_length("LESProtocol") = 15 /\ cmd_length("LESProtocolV2") = 21
    /\ Len(_commands("LESProtocol")) = Len(_commands("LESProtocolV2"))
    /\ {<<_commands("LESProtocol")[i], _commands("LESProtocolV2")[i]>> :
            i \in RegistryDiff}
         = {<<"Status", "StatusV2">>, <<"Proofs", "ProofsV2">>}

\* Both drivers have made the same inherited call with the same arguments.
C10_Witness ==
    /\ Len(calls) = 2
    /\ calls[1].proto = "les1" /\ calls[2].proto = "les2"
    /\ calls[1].method = "send_block_headers" /\ calls[2].method = "send_block_headers"
    /\ calls[1].args = calls[2].args
    /\ calls[1].request_id = Some(1) /\ calls[2].request_id = Some(1)
    /\ calls[1].out = calls[2].out
    /\ transport["les1"] = transport["les2"] /\ Len(transport["les1"]) = 1

====
